---- MODULE Spec2Model ----
(***************************************************************************)
(* A model of python_scaffold.py: the command-line entry point main() and  *)
(* the ProjectScaffolder class.  Up to two invocations of the tool run in  *)
(* working directories of one file system; every file-system call of a     *)
(* run (os.path.exists, os.makedirs, open(..., "w"), venv.create) is one   *)
(* atomic step, and the steps of the two runs interleave freely.  Strings  *)
(* the program transforms (the project name) are sequences of characters.  *)
(***************************************************************************)
EXTENDS Integers, Sequences, FiniteSets, TLC

VARIABLES
    fs,            \* the file system: path -> entry (a directory or a file)
    cwd,           \* os.getcwd() of each invocation
    args,          \* the parsed command line of each invocation
    package_name,  \* ProjectScaffolder.package_name
    pc,            \* where each invocation stands
    at,            \* <<call of scaffold(), file-system operation within it>>
    log,           \* the file-system operations each invocation has performed
    out,           \* what each invocation has printed
    exit_code,     \* <<status>> once the process has exited, <<>> before
    preexisting,   \* whether the target existed when the invocation started
    prior          \* the invocations that had ended when this one started

vars == <<fs, cwd, args, package_name, pc, at, log, out, exit_code,
          preexisting, prior>>

(***************************************************************************)
(* Bounds of the model.                                                    *)
(***************************************************************************)
\* Longest project name of the name-derivation specification SpecName.
MaxLen == 3
\* Number of distinct calendar years datetime.now() may report.
MaxYear == 2

Procs == {"p1", "p2"}
Years == 1..MaxYear

NoName == <<>>
NoExit == <<>>

\* The working directories.
W1 == <<"w","1">>
W2 == <<"w","2">>

(***************************************************************************)
(* Characters and strings.                                                 *)
(***************************************************************************)
LowerCase == <<"a","b","c","d","e","f","g","h","i","j","k","l","m",
               "n","o","p","q","r","s","t","u","v","w","x","y","z">>
UpperCase == <<"A","B","C","D","E","F","G","H","I","J","K","L","M",
               "N","O","P","Q","R","S","T","U","V","W","X","Y","Z">>

IsUpper(c) == \E i \in 1..Len(UpperCase) : UpperCase[i] = c
IsLower(c) == \E i \in 1..Len(LowerCase) : LowerCase[i] = c
IsCased(c) == IsUpper(c) \/ IsLower(c)

\* str.lower() on one character.
ToLower(c) ==
    IF IsUpper(c)
    THEN LowerCase[CHOOSE i \in 1..Len(UpperCase) : UpperCase[i] = c]
    ELSE c

\* str.upper() on one character.
ToUpper(c) ==
    IF IsLower(c)
    THEN UpperCase[CHOOSE i \in 1..Len(LowerCase) : LowerCase[i] = c]
    ELSE c

\* str.replace("-", "_")
ReplaceHyphen(s) == [i \in 1..Len(s) |-> IF s[i] = "-" THEN "_" ELSE s[i]]

\* str.lower()
Lower(s) == [i \in 1..Len(s) |-> ToLower(s[i])]

\* A derivation that forgets to lowercase.
PackageName_nolower(project_name) == ReplaceHyphen(project_name)

\* project_name.replace("-", "_").lower()
PackageName(project_name) == Lower(ReplaceHyphen(project_name))

\* str.title(): a cased character is uppercased when it starts a word (the
\* character before it is not cased) and lowercased otherwise.
Title(s) ==
    [i \in 1..Len(s) |->
        IF ~IsCased(s[i]) THEN s[i]
        ELSE IF i > 1 /\ IsCased(s[i-1]) THEN ToLower(s[i])
        ELSE ToUpper(s[i])]

(***************************************************************************)
(* File names the program uses, as strings of characters.                  *)
(***************************************************************************)
N_init      == <<"_","_","i","n","i","t","_","_",".","p","y">>
N_tests     == <<"t","e","s","t","s">>
N_docs      == <<"d","o","c","s">>
N_venv      == <<"v","e","n","v">>
N_index     == <<"i","n","d","e","x",".","m","d">>
N_setup_py  == <<"s","e","t","u","p",".","p","y">>
N_pyproject == <<"p","y","p","r","o","j","e","c","t",".","t","o","m","l">>
N_setup_cfg == <<"s","e","t","u","p",".","c","f","g">>
N_readme    == <<"R","E","A","D","M","E",".","m","d">>
N_license   == <<"L","I","C","E","N","S","E">>
N_gitignore == <<".","g","i","t","i","g","n","o","r","e">>
N_makefile  == <<"M","a","k","e","f","i","l","e">>
N_pyvenv    == <<"p","y","v","e","n","v",".","c","f","g">>
\* f"test_{self.package_name}.py"
N_test(pkg) == <<"t","e","s","t","_">> \o pkg \o <<".","p","y">>

(***************************************************************************)
(* The file system.  A path is a sequence of names; an entry is a          *)
(* directory or a file with its content.                                   *)
(***************************************************************************)
Text(tmpl, fields) == [tmpl |-> tmpl, fields |-> fields]
Dir == [kind |-> "dir", content |-> Text("", <<>>)]
\* A file opened for writing to which nothing was written.
Truncated == Text("", <<>>)
File(content) == [kind |-> "file", content |-> content]

\* os.path.exists(path)
Exists(f, path) == path \in DOMAIN f
IsDir(f, path) == Exists(f, path) /\ f[path].kind = "dir"
IsFile(f, path) == Exists(f, path) /\ f[path].kind = "file"
Parent(path) == SubSeq(path, 1, Len(path) - 1)

\* os.path.join(os.getcwd(), project_name)
BaseDir(p) == <<cwd[p], args[p].project_name>>

\* main() without its check.
TargetExists_never(p) == FALSE

\* A target that is looked up by the derived name instead of the given one.
TargetExists_package(p) == Exists(fs, <<cwd[p], PackageName(args[p].project_name)>>)

\* os.path.exists(os.path.join(os.getcwd(), args.project_name))
TargetExists(p) == Exists(fs, <<cwd[p], args[p].project_name>>)

\* The calls a method makes on the file system, in program order.
Mkdir(path) == [op |-> "makedirs", path |-> path]
Write(path, content) == [op |-> "write", path |-> path, content |-> content]

\* os.makedirs(path, exist_ok=True) raises when the path is a file;
\* open(path, "w") raises when the path is a directory or has no parent.
OpOk(f, o) ==
    IF o.op = "makedirs"
    THEN ~IsFile(f, o.path)
    ELSE ~IsDir(f, o.path) /\ IsDir(f, Parent(o.path))

\* The file system after the call.
Apply(f, o) ==
    IF o.op = "makedirs"
    THEN IF Exists(f, o.path) THEN f ELSE (o.path :> Dir) @@ f
    ELSE (o.path :> File(o.content)) @@ f

(***************************************************************************)
(* The text each method writes, as the template and the values the         *)
(* template interpolates.  A string literal without the f prefix           *)
(* interpolates nothing.                                                   *)
(***************************************************************************)
PackageInitText(p) == Text("package/__init__.py", <<args[p].project_name>>)
TestsInitText(p)   == Text("tests/__init__.py", <<>>)
TestFileText(p)    == Text("tests/test_package.py", <<package_name[p]>>)
DocsIndexText(p)   ==
    Text("docs/index.md",
         <<Title(args[p].project_name), args[p].description, package_name[p]>>)
\* A setup.py that records where it was generated.
SetupPyText_where(p) ==
    Text("setup.py",
         <<args[p].project_name, args[p].author, args[p].email,
           args[p].description, cwd[p]>>)
SetupPyText(p)     ==
    Text("setup.py",
         <<args[p].project_name, args[p].author, args[p].email,
           args[p].description>>)
PyprojectText(p)   == Text("pyproject.toml", <<>>)
SetupCfgText(p)    == Text("setup.cfg", <<>>)
ReadmeText(p)      ==
    Text("README.md",
         <<Title(args[p].project_name), args[p].description, package_name[p]>>)
\* f'Copyright (c) {self.get_current_year()} {self.author}'
LicenseText(p, year) == Text("LICENSE", <<year, args[p].author>>)
GitignoreText(p)   == Text(".gitignore", <<>>)
MakefileText(p)    == Text("Makefile", <<>>)
\* What venv.create leaves in the environment directory: files that hold
\* the absolute path of the environment.
PyvenvText(p)      == Text("pyvenv.cfg", <<BaseDir(p) \o <<N_venv>>>>)

(***************************************************************************)
(* The methods of ProjectScaffolder, each as the sequence of file-system   *)
(* calls it makes.                                                         *)
(***************************************************************************)
PackageDir(p) == BaseDir(p) \o <<package_name[p]>>
TestsDir(p)   == BaseDir(p) \o <<N_tests>>
DocsDir(p)    == BaseDir(p) \o <<N_docs>>
VenvDir(p)    == BaseDir(p) \o <<N_venv>>

create_directory_structure(p) ==
    <<Mkdir(BaseDir(p)),
      Mkdir(PackageDir(p)),
      Write(PackageDir(p) \o <<N_init>>, PackageInitText(p))>>
    \o (IF args[p].use_tests
        THEN <<Mkdir(TestsDir(p)),
               Write(TestsDir(p) \o <<N_init>>, TestsInitText(p)),
               Write(TestsDir(p) \o <<N_test(package_name[p])>>, TestFileText(p))>>
        ELSE <<>>)
    \o (IF args[p].use_docs
        THEN <<Mkdir(DocsDir(p)),
               Write(DocsDir(p) \o <<N_index>>, DocsIndexText(p))>>
        ELSE <<>>)

create_setup_files(p) ==
    <<Write(BaseDir(p) \o <<N_setup_py>>, SetupPyText(p)),
      Write(BaseDir(p) \o <<N_pyproject>>, PyprojectText(p)),
      Write(BaseDir(p) \o <<N_setup_cfg>>, SetupCfgText(p))>>

create_readme(p) == <<Write(BaseDir(p) \o <<N_readme>>, ReadmeText(p))>>

\* get_current_year() reads the clock: year is what it returned.
create_license(p, year) ==
    <<Write(BaseDir(p) \o <<N_license>>, LicenseText(p, year))>>

create_gitignore(p) == <<Write(BaseDir(p) \o <<N_gitignore>>, GitignoreText(p))>>

create_makefile(p) == <<Write(BaseDir(p) \o <<N_makefile>>, MakefileText(p))>>

\* venv.create(base_dir/venv, with_pip=True): the environment directory and
\* what the venv module puts into it.
create_venv(p) ==
    IF args[p].use_venv
    THEN <<Mkdir(VenvDir(p)),
           Write(VenvDir(p) \o <<N_pyvenv>>, PyvenvText(p))>>
    ELSE <<>>

\* scaffold() with the environment provisioned before the text files.
scaffold_venv_first(use_venv) ==
    <<"create_directory_structure">>
    \o (IF use_venv THEN <<"create_venv">> ELSE <<>>)
    \o <<"create_setup_files", "create_readme", "create_license",
         "create_gitignore", "create_makefile">>

\* scaffold() without its last text file.
scaffold_no_makefile(use_venv) ==
    <<"create_directory_structure", "create_setup_files", "create_readme",
      "create_license", "create_gitignore">>
    \o (IF use_venv THEN <<"create_venv">> ELSE <<>>)

\* scaffold(): the methods it calls, in order.
scaffold(use_venv) ==
    <<"create_directory_structure", "create_setup_files", "create_readme",
      "create_license", "create_gitignore", "create_makefile">>
    \o (IF use_venv THEN <<"create_venv">> ELSE <<>>)

(***************************************************************************)
(* The command line.                                                       *)
(***************************************************************************)
\* Project names given on the command line: one that the derivation changes
\* and the names that derive to a directory the scaffolder itself creates.
ProjectNames ==
    { <<"a","-","B">>, <<"T","e","s","t","s">>, <<"d","o","c","s">>,
      <<"v","e","n","v">> }

\* -a/--author, -e/--email, -d/--description.
Metas ==
    { [author |-> "alice", email |-> "alice@example.org", description |-> "demo"] }

MkArgs(name, tests, docs, venv, meta) ==
    [project_name |-> name, use_tests |-> tests, use_docs |-> docs,
     use_venv |-> venv, author |-> meta.author, email |-> meta.email,
     description |-> meta.description]

ArgSet ==
    { MkArgs(n, t, d, v, m) :
        n \in ProjectNames, t \in BOOLEAN, d \in BOOLEAN, v \in BOOLEAN,
        m \in Metas }

NoArgs == MkArgs(NoName, TRUE, TRUE, TRUE,
                 [author |-> "", email |-> "", description |-> ""])

Ended == {"rejected", "crashed", "done"}

(***************************************************************************)
(* main()                                                                  *)
(***************************************************************************)
\* The process starts and parse_args() returns.  The invocations of one
\* behaviour are given the same project name: runs with different names in
\* one directory, like runs in different directories, touch disjoint paths.
Invoke(p) ==
    /\ pc[p] = "idle"
    /\ \E a \in ArgSet :
          /\ \A q \in Procs \ {p} :
                pc[q] # "idle" => a.project_name = args[q].project_name
          /\ args' = [args EXCEPT ![p] = a]
          /\ preexisting' =
                [preexisting EXCEPT ![p] = Exists(fs, <<cwd[p], a.project_name>>)]
    /\ prior' = [prior EXCEPT ![p] = {q \in Procs : pc[q] \in Ended}]
    /\ pc' = [pc EXCEPT ![p] = "main"]
    /\ UNCHANGED <<fs, cwd, package_name, at, log, out, exit_code>>

\* if os.path.exists(...): print error; sys.exit(1)
Check(p) ==
    /\ pc[p] = "main"
    /\ IF TargetExists(p)
       THEN /\ out' = [out EXCEPT ![p] = Append(@, "Error: Directory already exists")]
            /\ exit_code' = [exit_code EXCEPT ![p] = <<1>>]
            /\ pc' = [pc EXCEPT ![p] = "rejected"]
       ELSE /\ pc' = [pc EXCEPT ![p] = "init"]
            /\ UNCHANGED <<out, exit_code>>
    /\ UNCHANGED <<fs, cwd, args, package_name, at, log, preexisting, prior>>

\* ProjectScaffolder.__init__; then main() calls scaffold(), which enters
\* create_directory_structure(): print(f"Creating project: ...").
Construct(p) ==
    /\ pc[p] = "init"
    /\ package_name' = [package_name EXCEPT ![p] = PackageName(args[p].project_name)]
    /\ pc' = [pc EXCEPT ![p] = "scaffold"]
    /\ at' = [at EXCEPT ![p] = <<1, 1>>]
    /\ out' = [out EXCEPT ![p] = Append(@, "Creating project")]
    /\ UNCHANGED <<fs, cwd, args, log, exit_code, preexisting, prior>>

(***************************************************************************)
(* scaffold()                                                              *)
(***************************************************************************)
\* The method scaffold() is in.
Current(p) == scaffold(args[p].use_venv)[at[p][1]]

\* The file-system calls of method m; year is what the clock reports.
Calls(p, m, year) ==
    CASE m = "create_directory_structure" -> create_directory_structure(p)
      [] m = "create_setup_files"         -> create_setup_files(p)
      [] m = "create_readme"              -> create_readme(p)
      [] m = "create_license"             -> create_license(p, year)
      [] m = "create_gitignore"           -> create_gitignore(p)
      [] m = "create_makefile"            -> create_makefile(p)
      [] m = "create_venv"                -> create_venv(p)

\* The call scaffold() is about to make; what it would write is left open.
Pending(p) ==
    LET o == Calls(p, Current(p), CHOOSE year \in Years : TRUE)[at[p][2]]
    IN  [op |-> o.op, path |-> o.path]

\* What is printed once a call of method m has returned: the messages of
\* create_venv() after venv.create, and the message create_venv() prints on
\* entry when it is the method scaffold() calls next.
Prints(p, m, last) ==
    LET order == scaffold(args[p].use_venv) IN
    (IF last /\ m = "create_venv"
     THEN <<"Virtual environment created">> ELSE <<>>)
    \o (IF last /\ at[p][1] < Len(order) /\ order[at[p][1] + 1] = "create_venv"
        THEN <<"Creating virtual environment">> ELSE <<>>)

\* The next file-system call of method m, whose calls are ops.
Step(p, m, ops) ==
    /\ pc[p] = "scaffold"
    /\ Current(p) = m
    /\ LET o == ops[at[p][2]] IN
          /\ OpOk(fs, o)
          /\ fs' = Apply(fs, o)
          /\ log' = [log EXCEPT ![p] = Append(@, <<o.op, o.path>>)]
    /\ IF at[p][2] < Len(ops)
       THEN /\ at' = [at EXCEPT ![p] = <<@[1], @[2] + 1>>]
            /\ pc' = pc
       ELSE IF at[p][1] < Len(scaffold(args[p].use_venv))
       THEN /\ at' = [at EXCEPT ![p] = <<@[1] + 1, 1>>]
            /\ pc' = pc
       ELSE /\ at' = at
            /\ pc' = [pc EXCEPT ![p] = "success"]
    /\ out' = [out EXCEPT ![p] = @ \o Prints(p, m, at[p][2] = Len(ops))]
    /\ UNCHANGED <<cwd, args, package_name, exit_code, preexisting, prior>>

CreateDirectoryStructure(p) ==
    /\ pc[p] = "scaffold"
    /\ Step(p, "create_directory_structure", create_directory_structure(p))

CreateSetupFiles(p) ==
    /\ pc[p] = "scaffold"
    /\ Step(p, "create_setup_files", create_setup_files(p))

CreateReadme(p) ==
    /\ pc[p] = "scaffold"
    /\ Step(p, "create_readme", create_readme(p))

CreateLicense(p) ==
    /\ pc[p] = "scaffold"
    /\ \E year \in Years : Step(p, "create_license", create_license(p, year))

CreateGitignore(p) ==
    /\ pc[p] = "scaffold"
    /\ Step(p, "create_gitignore", create_gitignore(p))

CreateMakefile(p) ==
    /\ pc[p] = "scaffold"
    /\ Step(p, "create_makefile", create_makefile(p))

\* if self.use_venv: self.create_venv()
CreateVenv(p) ==
    /\ pc[p] = "scaffold"
    /\ Step(p, "create_venv", create_venv(p))

\* A failed step that removes the target directory again.
Fail_rollback(p) ==
    /\ pc[p] = "scaffold"
    /\ pc' = [pc EXCEPT ![p] = "crashed"]
    /\ exit_code' = [exit_code EXCEPT ![p] = <<1>>]
    /\ fs' = [path \in {q \in DOMAIN fs :
                          Len(q) < 2 \/ SubSeq(q, 1, 2) # BaseDir(p)} |-> fs[path]]
    /\ UNCHANGED <<cwd, args, package_name, at, log, out, preexisting, prior>>

\* The pending file-system call raises (OSError): nothing catches it, the
\* interpreter prints the traceback and exits with status 1.  Either the call
\* itself fails, and changes nothing, or open(path, "w") has succeeded and a
\* later f.write fails, which leaves the file created and truncated.
Fail(p) ==
    /\ pc[p] = "scaffold"
    /\ \E opened \in BOOLEAN :
          LET o == Pending(p) IN
          IF opened /\ o.op = "write" /\ OpOk(fs, o)
          THEN /\ fs' = (o.path :> File(Truncated)) @@ fs
               /\ log' = [log EXCEPT ![p] = Append(@, <<o.op, o.path>>)]
          ELSE /\ fs' = fs
               /\ log' = log
    /\ pc' = [pc EXCEPT ![p] = "crashed"]
    /\ exit_code' = [exit_code EXCEPT ![p] = <<1>>]
    /\ UNCHANGED <<cwd, args, package_name, at, out, preexisting, prior>>

\* print("... created successfully!"); main() returns.
Finish(p) ==
    /\ pc[p] = "success"
    /\ out' = [out EXCEPT ![p] = Append(@, "created successfully")]
    /\ exit_code' = [exit_code EXCEPT ![p] = <<0>>]
    /\ pc' = [pc EXCEPT ![p] = "done"]
    /\ UNCHANGED <<fs, cwd, args, package_name, at, log, preexisting, prior>>

(***************************************************************************)
(* Specifications.                                                         *)
(***************************************************************************)
InitCommon ==
    /\ fs = (<<W1>> :> Dir) @@ (<<W2>> :> Dir)
    /\ args = [p \in Procs |-> NoArgs]
    /\ package_name = [p \in Procs |-> NoName]
    /\ pc = [p \in Procs |-> "idle"]
    /\ at = [p \in Procs |-> <<0, 0>>]
    /\ log = [p \in Procs |-> <<>>]
    /\ out = [p \in Procs |-> <<>>]
    /\ exit_code = [p \in Procs |-> NoExit]
    /\ preexisting = [p \in Procs |-> FALSE]
    /\ prior = [p \in Procs |-> {}]

\* Both invocations run in the same working directory.
Init == InitCommon /\ cwd = [p \in Procs |-> W1]

Next ==
    \E p \in Procs :
        \/ Invoke(p)
        \/ Check(p)
        \/ Construct(p)
        \/ CreateDirectoryStructure(p)
        \/ CreateSetupFiles(p)
        \/ CreateReadme(p)
        \/ CreateLicense(p)
        \/ CreateGitignore(p)
        \/ CreateMakefile(p)
        \/ CreateVenv(p)
        \/ Fail(p)
        \/ Finish(p)

Spec == Init /\ [][Next]_vars

\* The invocations run in different working directories.
InitDet == InitCommon /\ cwd = ("p1" :> W1) @@ ("p2" :> W2)

SpecDet == InitDet /\ [][Next]_vars

(***************************************************************************)
(* The name derivation alone: both scaffolders are about to be constructed *)
(* for any two project names of up to MaxLen characters.                   *)
(***************************************************************************)
Alphabet == {"a", "B", "-", "_"}

Words(n) == UNION { [1..k -> Alphabet] : k \in 1..n }

TheMeta == CHOOSE m \in Metas : TRUE

InitName ==
    /\ fs = (<<W1>> :> Dir) @@ (<<W2>> :> Dir)
    /\ cwd = ("p1" :> W1) @@ ("p2" :> W2)
    /\ args \in [Procs -> { MkArgs(n, TRUE, TRUE, TRUE, TheMeta) : n \in Words(MaxLen) }]
    /\ package_name = [p \in Procs |-> NoName]
    /\ pc = [p \in Procs |-> "init"]
    /\ at = [p \in Procs |-> <<0, 0>>]
    /\ log = [p \in Procs |-> <<>>]
    /\ out = [p \in Procs |-> <<>>]
    /\ exit_code = [p \in Procs |-> NoExit]
    /\ preexisting = [p \in Procs |-> FALSE]
    /\ prior = [p \in Procs |-> {}]

NextName == \E p \in Procs : Construct(p)

SpecName == InitName /\ [][NextName]_vars

(***************************************************************************)
(* Vocabulary of the properties.                                           *)
(***************************************************************************)
Other(p) == CHOOSE q \in Procs : q # p

\* The paths below dir, relative to it.
Below(f, dir) ==
    { SubSeq(path, Len(dir) + 1, Len(path)) :
        path \in { q \in DOMAIN f :
                     Len(q) > Len(dir) /\ SubSeq(q, 1, Len(dir)) = dir } }

\* The files below dir, relative to it.
FilesBelow(f, dir) == { r \in Below(f, dir) : f[dir \o r].kind = "file" }

\* No other invocation has written to the target of p.
Alone(p) == \A q \in Procs \ {p} : log[q] = <<>> \/ BaseDir(q) # BaseDir(p)

\* The paths an invocation has written, in order, relative to its target.
RECURSIVE Writes(_, _)
Writes(l, base) ==
    IF l = <<>> THEN <<>>
    ELSE IF l[1][1] = "write"
    THEN <<SubSeq(l[1][2], Len(base) + 1, Len(l[1][2]))>> \o Writes(Tail(l), base)
    ELSE Writes(Tail(l), base)

Printed(p, msg) == \E i \in 1..Len(out[p]) : out[p][i] = msg

IsPrefix(s, t) == Len(s) <= Len(t) /\ SubSeq(t, 1, Len(s)) = s

Range(s) == { s[i] : i \in 1..Len(s) }

\* The files the tool is documented to produce, relative to the target.
AlwaysFiles(pkg) ==
    { <<pkg, N_init>>, <<N_setup_py>>, <<N_pyproject>>, <<N_setup_cfg>>,
      <<N_readme>>, <<N_license>>, <<N_gitignore>>, <<N_makefile>> }
TestsFiles(pkg) == { <<N_tests, N_init>>, <<N_tests, N_test(pkg)>> }
DocsFiles == { <<N_docs, N_index>> }

ExpectedFiles(a, pkg) ==
    AlwaysFiles(pkg)
    \cup (IF a.use_tests THEN TestsFiles(pkg) ELSE {})
    \cup (IF a.use_docs THEN DocsFiles ELSE {})

(***************************************************************************)
(* C1.  After a run on a fresh target completes, the target holds exactly  *)
(* the documented entries: the package's __init__.py, setup.py,            *)
(* pyproject.toml, setup.cfg, README.md, LICENSE, .gitignore and Makefile  *)
(* always; tests/__init__.py and tests/test_<package>.py if and only if    *)
(* tests are enabled; docs/index.md if and only if docs are enabled; the   *)
(* venv directory if and only if the environment is enabled; nothing else. *)
(***************************************************************************)
C1_ExactEntries ==
    \A p \in Procs :
        (pc[p] = "done" /\ ~preexisting[p] /\ Alone(p)) =>
            LET a    == args[p]
                pkg  == package_name[p]
                have == FilesBelow(fs, BaseDir(p))
            IN  /\ AlwaysFiles(pkg) \subseteq have
                /\ \A f \in TestsFiles(pkg) : f \in have <=> a.use_tests
                /\ \A f \in DocsFiles : f \in have <=> a.use_docs
                /\ Exists(fs, VenvDir(p)) <=> a.use_venv
                /\ \A f \in have :
                      \/ f \in ExpectedFiles(a, pkg)
                      \/ a.use_venv /\ f[1] = N_venv

(***************************************************************************)
(* C2.  An invocation whose target directory exists when it starts fails   *)
(* before any write: it performs no file-system operation, and no step it  *)
(* takes changes the file system.                                          *)
(***************************************************************************)
C2_NoWriteIfExists ==
    /\ [](\A p \in Procs :
            preexisting[p] => log[p] = <<>> /\ pc[p] \in {"main", "rejected"})
    /\ [][\A p \in Procs :
            (preexisting[p] /\ <<pc[p], at[p]>> # <<pc'[p], at'[p]>>) => fs' = fs]_vars

C2_Witness ==
    \E p \in Procs :
        /\ preexisting[p] /\ pc[p] = "rejected"
        /\ FilesBelow(fs, BaseDir(p)) # {}

(***************************************************************************)
(* C3.  An invocation that starts after another invocation with the same   *)
(* project name in the same working directory has ended, having created    *)
(* the directory (whether it completed or not), is rejected: it prints the *)
(* existing-directory error and runs no scaffolding step, whatever the     *)
(* flags of either invocation.                                             *)
(***************************************************************************)
C3_SecondRejected ==
    \A p \in Procs : \A q \in prior[p] :
        (BaseDir(q) = BaseDir(p) /\ log[q] # <<>> /\ pc[p] # "main") =>
            /\ pc[p] = "rejected"
            /\ out[p] = <<"Error: Directory already exists">>
            /\ log[p] = <<>>
            /\ exit_code[p] = <<1>>

C3_Witness ==
    \E p \in Procs : \E q \in prior[p] :
        /\ BaseDir(q) = BaseDir(p)
        /\ pc[q] = "crashed" /\ log[q] # <<>>
        /\ args[q] # args[p]
        /\ pc[p] = "rejected"

(***************************************************************************)
(* C4.  The exit code is 1 when the target directory exists at invocation  *)
(* and 0 when scaffolding succeeds: a run that ends with exit code 0 has   *)
(* written the complete file set, and a run whose target pre-existed ends  *)
(* with exit code 1.                                                       *)
(***************************************************************************)
C4_ExitCodes ==
    \A p \in Procs :
        /\ exit_code[p] = <<0>> =>
              /\ ExpectedFiles(args[p], package_name[p])
                    \subseteq Range(Writes(log[p], BaseDir(p)))
              /\ ExpectedFiles(args[p], package_name[p])
                    \subseteq FilesBelow(fs, BaseDir(p))
              /\ args[p].use_venv => <<"makedirs", VenvDir(p)>> \in Range(log[p])
        /\ pc[p] = "done" => exit_code[p] = <<0>>
        /\ pc[p] = "rejected" => exit_code[p] = <<1>>
        /\ (preexisting[p] /\ pc[p] \in Ended) => exit_code[p] = <<1>>
        /\ preexisting[p] => exit_code[p] # <<0>>

C4_Witness ==
    \E p \in Procs :
        /\ exit_code[p] = <<0>>
        /\ exit_code[Other(p)] = <<1>> /\ preexisting[Other(p)]

(***************************************************************************)
(* C5.  The package name is a function of the project name only: the       *)
(* project name with every hyphen replaced by an underscore and every      *)
(* letter lowercased.  It holds no hyphen and no uppercase letter, equal   *)
(* project names give equal package names, and deriving again from a       *)
(* package name returns it unchanged.                                      *)
(***************************************************************************)
Constructed(p) == pc[p] \notin {"idle", "main", "init"}

C5_PackageName ==
    \A p \in Procs :
        Constructed(p) =>
            LET n == args[p].project_name
                k == package_name[p]
            IN  /\ Len(k) = Len(n)
                /\ \A i \in 1..Len(n) :
                      /\ n[i] = "-" => k[i] = "_"
                      /\ IsUpper(n[i]) => IsLower(k[i]) /\ ToUpper(k[i]) = n[i]
                      /\ (n[i] # "-" /\ ~IsUpper(n[i])) => k[i] = n[i]
                /\ \A i \in 1..Len(k) : k[i] # "-" /\ ~IsUpper(k[i])
                /\ PackageName(k) = k
                /\ \A q \in Procs :
                      (Constructed(q) /\ args[q].project_name = n)
                          => package_name[q] = k

C5_Witness ==
    \E p \in Procs :
        /\ Constructed(p) /\ Constructed(Other(p))
        /\ \E i \in 1..Len(args[p].project_name) : args[p].project_name[i] = "-"
        /\ \E i \in 1..Len(args[p].project_name) : IsUpper(args[p].project_name[i])
        /\ args[Other(p)].project_name = args[p].project_name

(***************************************************************************)
(* C6.  Two runs on fresh target directories with equal configuration      *)
(* produce the same file paths with the same content in every text file,   *)
(* whatever lies outside the configuration (such as the time of the run).  *)
(***************************************************************************)
BothDone(p, q) ==
    /\ p # q
    /\ pc[p] = "done" /\ pc[q] = "done"
    /\ ~preexisting[p] /\ ~preexisting[q]
    /\ BaseDir(p) # BaseDir(q)
    /\ args[p] = args[q]

C6_SameContents ==
    \A p, q \in Procs :
        BothDone(p, q) =>
            /\ Below(fs, BaseDir(p)) = Below(fs, BaseDir(q))
            /\ \A r \in Below(fs, BaseDir(p)) :
                  fs[BaseDir(p) \o r] = fs[BaseDir(q) \o r]

(***************************************************************************)
(* C6, amended.  Two runs on fresh target directories with equal           *)
(* configuration create the same paths themselves, with the same content   *)
(* in every file the scaffolder writes except LICENSE, whose content also  *)
(* holds the calendar year of the run: the two LICENSE files differ in     *)
(* nothing but that year.  What venv.create puts into the environment      *)
(* directory is not determined by the configuration.                       *)
(***************************************************************************)
\* The paths below the target that the scaffolder creates itself.
OwnPaths(p) == Below(fs, BaseDir(p)) \ {<<N_venv, N_pyvenv>>}

C6_SameContentsButYear ==
    \A p, q \in Procs :
        BothDone(p, q) =>
            /\ OwnPaths(p) = OwnPaths(q)
            /\ \A r \in OwnPaths(p) :
                  LET x == fs[BaseDir(p) \o r]
                      y == fs[BaseDir(q) \o r]
                  IN  IF r = <<N_license>>
                      THEN /\ x.kind = y.kind
                           /\ x.content.tmpl = y.content.tmpl
                           /\ Tail(x.content.fields) = Tail(y.content.fields)
                           /\ Head(x.content.fields) \in Years
                           /\ Head(y.content.fields) \in Years
                      ELSE x = y

C6_Witness ==
    \E p, q \in Procs :
        /\ BothDone(p, q)
        /\ args[p].use_venv /\ args[p].use_tests /\ args[p].use_docs
        /\ fs[BaseDir(p) \o <<N_license>>] # fs[BaseDir(q) \o <<N_license>>]

(***************************************************************************)
(* C7.  No retry and no recovery: when a step fails the run stops at that  *)
(* step, no later step runs, the failed step is not attempted again,       *)
(* nothing written is removed, and the success message is never printed.   *)
(* The only failure the program reports itself is the pre-existing target  *)
(* directory; every other failure ends the run unreported.                 *)
(***************************************************************************)
C7_NoRecovery ==
    /\ [](\A p \in Procs :
            /\ exit_code[p] = <<1>> => pc[p] \in {"rejected", "crashed"}
            /\ pc[p] = "crashed" =>
                  /\ ~Printed(p, "created successfully")
                  /\ ~Printed(p, "Error: Directory already exists")
            /\ Printed(p, "Error: Directory already exists") =>
                  /\ pc[p] = "rejected"
                  /\ Exists(fs, BaseDir(p))
                  /\ log[p] = <<>>)
    /\ [][/\ \A p \in Procs :
               /\ exit_code[p] = <<1>> =>
                     /\ pc'[p] = pc[p] /\ at'[p] = at[p] /\ log'[p] = log[p]
                     /\ out'[p] = out[p] /\ exit_code'[p] = exit_code[p]
               /\ (pc[p] = "scaffold" /\ pc'[p] = "crashed") =>
                     /\ exit_code'[p] = <<1>>
                     /\ out'[p] = out[p]
                     /\ IsPrefix(log[p], log'[p])
          /\ \A path \in DOMAIN fs : path \in DOMAIN fs' /\ fs'[path].kind = fs[path].kind
         ]_vars

C7_Witness ==
    \E p \in Procs :
        /\ pc[p] = "crashed"
        /\ Len(log[p]) > 3
        /\ pc[Other(p)] = "crashed"

(***************************************************************************)
(* C8.  Scaffolding is one fixed sequence of steps: the base directory     *)
(* first, then the package, the tests if enabled, the docs if enabled,     *)
(* setup.py, pyproject.toml, setup.cfg, README.md, LICENSE, .gitignore,    *)
(* Makefile, and last the environment, which is provisioned only when      *)
(* enabled and only after every text file is written.  The success message *)
(* is printed only after all enabled steps have finished.                  *)
(***************************************************************************)
ClaimedOrder(a, pkg) ==
    <<<<pkg, N_init>>>>
    \o (IF a.use_tests THEN <<<<N_tests, N_init>>, <<N_tests, N_test(pkg)>>>> ELSE <<>>)
    \o (IF a.use_docs THEN <<<<N_docs, N_index>>>> ELSE <<>>)
    \o <<<<N_setup_py>>, <<N_pyproject>>, <<N_setup_cfg>>, <<N_readme>>,
         <<N_license>>, <<N_gitignore>>, <<N_makefile>>>>
    \o (IF a.use_venv THEN <<<<N_venv, N_pyvenv>>>> ELSE <<>>)

C8_FixedOrder ==
    \A p \in Procs :
        LET w == Writes(log[p], BaseDir(p))
            o == ClaimedOrder(args[p], package_name[p])
        IN  /\ IsPrefix(w, o)
            /\ log[p] # <<>> => log[p][1] = <<"makedirs", BaseDir(p)>>
            \* the second operation creates the package directory
            /\ \A i \in 3..Len(log[p]) :
                  log[p][i] = <<"makedirs", VenvDir(p)>> =>
                      /\ args[p].use_venv
                      /\ Printed(p, "Creating virtual environment")
                      /\ Len(Writes(SubSeq(log[p], 1, i), BaseDir(p))) = Len(o) - 1
            /\ Printed(p, "Creating virtual environment") =>
                  args[p].use_venv /\ Len(w) >= Len(o) - 1
            /\ Printed(p, "created successfully") => w = o /\ pc[p] = "done"

C8_Witness ==
    \E p \in Procs :
        /\ pc[p] = "done"
        /\ args[p].use_venv /\ args[p].use_tests /\ args[p].use_docs
        /\ pc[Other(p)] = "done" /\ ~args[Other(p)].use_venv

(***************************************************************************)
(* C9.  Every file and directory created during one run has a path of its  *)
(* own, so that no file written by an earlier step is overwritten by a     *)
(* later one; the package directory is never the tests, docs or venv       *)
(* directory.                                                              *)
(***************************************************************************)
C9_DistinctPaths ==
    \A p \in Procs :
        /\ \A i, j \in 1..Len(log[p]) : i # j => log[p][i][2] # log[p][j][2]
        /\ Constructed(p) =>
              PackageDir(p) \notin {TestsDir(p), DocsDir(p), VenvDir(p)}

(***************************************************************************)
(* C10.  When two invocations with the same project name in the same       *)
(* working directory overlap in time, at most one passes the existence     *)
(* check and writes files: the files of one target directory are never     *)
(* written by two invocations.                                             *)
(***************************************************************************)
C10_OneWriter ==
    \A p, q \in Procs :
        (p # q /\ pc[p] # "idle" /\ pc[q] # "idle" /\ BaseDir(p) = BaseDir(q)) =>
            /\ ~(Constructed(p) /\ pc[p] # "rejected"
                 /\ Constructed(q) /\ pc[q] # "rejected")
            /\ log[p] = <<>> \/ log[q] = <<>>

====
